---------------------------- MODULE Spec2Model ----------------------------
(***************************************************************************)
(* Model of pyams_auth_ldap.zmi: the management views of the LDAP          *)
(* directory plug-in.                                                      *)
(*                                                                         *)
(*   Spec          the LDAP entry display form (ldap-properties.html):     *)
(*                 the reified ldap_entry getter, the form title adapter   *)
(*                 and the entry properties table values;                  *)
(*   SpecSearch    the search results table: its values adapter, its       *)
(*                 columns and LDAPColumn.get_value;                       *)
(*   SpecRegistry  the registrations made by the module's decorators       *)
(*                 (views, inner tab forms, form fields adapters) and the  *)
(*                 permission check made when a view is requested.         *)
(*                                                                         *)
(* Python values are records [t |-> type name, v |-> payload]; a str is a  *)
(* sequence of text tokens, a bytes object a sequence of 0..255, a list or *)
(* tuple a sequence of values.  A dict is the sequence of its (key, value) *)
(* pairs in insertion order.                                               *)
(***************************************************************************)
EXTENDS Naturals, Sequences, FiniteSets, TLC

VARIABLES
    \* --- LDAP entry display form (one form instance, one request)
    request_dn,      \* request.params.get('dn')
    form_dict,       \* the form instance's __dict__: where reify stores ldap_entry
    connections,     \* number of plugin.get_connection() calls
    executed,        \* the LDAPQuery objects executed, in order
    result,          \* what the last query.execute(conn) returned
    raised,          \* exception propagated out of the request ("" if none)
    reads,           \* number of reads of form.ldap_entry
    first_read,      \* value returned by the first read
    last_read,       \* value returned by the latest read
    title,           \* last value of the IFormTitle adapter
    rows,            \* rows yielded by the last evaluation of the table values
    \* --- search results table
    search_query,    \* request.params.get('form.widgets.query')
    uid_attribute,   \* plugin.uid_attribute
    criteria,        \* the criteria passed to plugin.get_search_results, in order
    found,           \* what plugin.get_search_results returns for the request's query
    search_rows,     \* rows yielded by the last evaluation of the table values
    columns,         \* the table's columns, in display order
    cell,            \* last value returned by a column's get_value
    \* --- component registry
    registry,        \* registrations made so far by the scan of the module
    served,          \* requests that reached their view
    denied           \* requests refused by the permission check

entryVars == <<request_dn, form_dict, connections, executed, result, raised,
               reads, first_read, last_read, title, rows>>
searchVars == <<search_query, uid_attribute, criteria, found, search_rows,
                columns, cell>>
registryVars == <<registry, served, denied>>
vars == <<entryVars, searchVars, registryVars>>

-----------------------------------------------------------------------------
(* Bounds of the model *)

MaxPhotoLen == 3     \* longest photo value, in bytes
MaxReads == 3        \* reads of ldap_entry during one request
MaxRows == 2         \* rows returned by one search
MaxValues == 3       \* longest multi-valued attribute of a search row
MaxEvals == 2        \* evaluations of the search table values
MaxRequests == 3     \* requests routed after the scan

-----------------------------------------------------------------------------
(* Python values *)

None == [t |-> "NoneType", v |-> <<>>]
Str(s) == [t |-> "str", v |-> s]
Bytes(b) == [t |-> "bytes", v |-> b]
List(xs) == [t |-> "list", v |-> xs]
Tuple(xs) == [t |-> "tuple", v |-> xs]

\* dict.keys()
DictKeys(d) == {d[i][1] : i \in 1..Len(d)}

\* dict.get(key, default)
DictGet(d, key, default) ==
    IF key \in DictKeys(d)
    THEN d[CHOOSE i \in 1..Len(d) : d[i][1] = key][2]
    ELSE default

\* dict[key] = value: an existing key keeps its place, a new one goes last
DictSet(d, key, value) ==
    IF key \in DictKeys(d)
    THEN [i \in 1..Len(d) |-> IF d[i][1] = key THEN <<key, value>> ELSE d[i]]
    ELSE Append(d, <<key, value>>)

Min(a, b) == IF a < b THEN a ELSE b

-----------------------------------------------------------------------------
(* base64.encodebytes(photo).decode() *)

B64Alphabet ==
    << "A","B","C","D","E","F","G","H","I","J","K","L","M","N","O","P",
       "Q","R","S","T","U","V","W","X","Y","Z","a","b","c","d","e","f",
       "g","h","i","j","k","l","m","n","o","p","q","r","s","t","u","v",
       "w","x","y","z","0","1","2","3","4","5","6","7","8","9","+","/" >>

B64Char(sextet) == B64Alphabet[sextet + 1]

\* one group of 1, 2 or 3 bytes gives 4 characters, '=' padding the short ones
B64Group(g) ==
    LET b1 == g[1]
        b2 == IF Len(g) >= 2 THEN g[2] ELSE 0
        b3 == IF Len(g) >= 3 THEN g[3] ELSE 0
    IN  << B64Char(b1 \div 4),
           B64Char((b1 % 4) * 16 + (b2 \div 16)),
           IF Len(g) >= 2 THEN B64Char((b2 % 16) * 4 + (b3 \div 64)) ELSE "=",
           IF Len(g) >= 3 THEN B64Char(b3 % 64) ELSE "=" >>

RECURSIVE B64Line(_)
B64Line(bytes) ==
    IF bytes = <<>> THEN <<>>
    ELSE B64Group(SubSeq(bytes, 1, Min(3, Len(bytes))))
         \o B64Line(SubSeq(bytes, Min(3, Len(bytes)) + 1, Len(bytes)))

\* binascii.b2a_base64: the line and its newline
b2a_base64(bytes) == B64Line(bytes) \o <<"\n">>

\* base64.encodebytes: one line per chunk of 57 bytes; nothing for b''
RECURSIVE encodebytes(_)
encodebytes(bytes) ==
    IF bytes = <<>> THEN <<>>
    ELSE b2a_base64(SubSeq(bytes, 1, Min(57, Len(bytes))))
         \o encodebytes(SubSeq(bytes, Min(57, Len(bytes)) + 1, Len(bytes)))

\* '<img src="data:image/jpeg;base64,{0}" />'.format(encoded)
ImgMarkup(encoded) ==
    Str(<<"<img src=\"data:image/jpeg;base64,">> \o encoded \o <<"\" />">>)

-----------------------------------------------------------------------------
(* LDAPEntryPropertiesDisplayForm.ldap_entry *)

\* Python's order on the attribute names of the model (code point order)
NameOrder == <<"cn", "jpegPhoto", "mail", "thumbnailPhoto">>
NameRank(n) == CHOOSE i \in 1..Len(NameOrder) : NameOrder[i] = n
StrLess(a, b) == NameRank(a) < NameRank(b)

\* Outcome of a piece of code: the exception it raises ("" if none), its value
Ok(value) == [exc |-> "", value |-> value]
Raise(exception) == [exc |-> exception, value |-> <<>>]

\* The photo post-processing, lines 394-401 and 402-409: the same code for
\* each of the two attributes
PhotoMarkup(attributes, name) ==
    LET photo == DictGet(attributes, name, None)
    IN  IF photo.t = "NoneType" THEN Ok(attributes)
        ELSE IF photo.t = "list" /\ photo.v = <<>> THEN Raise("IndexError")
        ELSE LET first == IF photo.t = "list" THEN photo.v[1] ELSE photo
             IN  IF first.t # "bytes" THEN Raise("TypeError")
                 ELSE Ok(DictSet(attributes, name,
                                 List(<<ImgMarkup(encodebytes(first.v))>>)))

jpegPhoto(attributes) == PhotoMarkup(attributes, "jpegPhoto")
thumbnailPhoto(attributes) == PhotoMarkup(attributes, "thumbnailPhoto")

\* sorted(attributes.items(), key=lambda x: x[0]): a stable sort on the name
RECURSIVE SortedInsert(_, _)
SortedInsert(sorted, item) ==
    IF sorted = <<>> THEN <<item>>
    ELSE IF StrLess(item[1], Head(sorted)[1]) THEN <<item>> \o sorted
    ELSE <<Head(sorted)>> \o SortedInsert(Tail(sorted), item)

RECURSIVE SortedItems(_)
SortedItems(items) ==
    IF items = <<>> THEN <<>>
    ELSE SortedInsert(SortedItems(SubSeq(items, 1, Len(items) - 1)),
                      items[Len(items)])

\* a faulty variant of NotFound: only `not result`
NotFoundWhenEmpty(res) == res.isNone \/ Len(res.v) = 0

\* `not result or len(result) > 1`
NotFound(res) == res.isNone \/ Len(res.v) = 0 \/ Len(res.v) > 1

\* The body of the getter, from the result of query.execute(conn)
EntryOf(res) ==
    IF NotFound(res) THEN Ok(<<>>)
    ELSE LET dn == res.v[1][1]
             jpeg == jpegPhoto(res.v[1][2])
         IN  IF jpeg.exc # "" THEN jpeg
             ELSE LET thumb == thumbnailPhoto(jpeg.value)
                  IN  IF thumb.exc # "" THEN thumb
                      ELSE Ok(<< <<"dn", dn>>,
                                 <<"attributes", SortedItems(thumb.value)>> >>)

\* LDAPQuery(dn, '(objectclass=*)', BASE, ALL_ATTRIBUTES)
LDAPQuery(dn) ==
    [base_dn |-> dn, filter |-> "(objectclass=*)", scope |-> "BASE",
     attrs |-> "ALL_ATTRIBUTES"]

\* pyramid's reify: the value computed by the first successful call is stored
\* in the instance's __dict__ and shadows the getter from then on
Reified(dict) == "ldap_entry" \in DictKeys(dict)

\* a faulty variant of ReifyStore: nothing is stored
ReifyForget(dict, outcome) == dict

ReifyStore(dict, outcome) ==
    IF outcome.exc = "" THEN DictSet(dict, "ldap_entry", outcome.value) ELSE dict

-----------------------------------------------------------------------------
(* What the directory may answer to the base-scope query *)

RequestDNs == {"uid=al,dc=x", "uid=bo,dc=x"}
\* the DN of a returned entry is the server's spelling of it
EntryDNs == {"uid=al,dc=x", "UID=AL,DC=X"}

\* the first bytes of a JPEG file
PhotoData == <<255, 216, 255, 224, 0, 16>>
PhotoBytes == {SubSeq(PhotoData, 1, n) : n \in 0..MaxPhotoLen}

\* a photo attribute: bytes, a list of bytes values, an empty list, a text
\* string
PhotoValues ==
    {Bytes(b) : b \in PhotoBytes}
    \cup {List(<<Bytes(b)>>) : b \in PhotoBytes}
    \cup {List(<<Bytes(<<255, 216>>), Bytes(<<0>>)>>), List(<<>>),
          Str(<<"photo">>)}

ValuesOf(name) ==
    CASE name = "cn" -> {Str(<<"Al">>)}
      [] name = "mail" -> {List(<<Str(<<"al@x">>), Str(<<"al@y">>)>>)}
      [] OTHER -> PhotoValues

\* every dict over a set of names, in every insertion order
RECURSIVE DictsOver(_)
DictsOver(names) ==
    {<<>>} \cup UNION {{<< <<n, v>> >> \o d :
                          v \in ValuesOf(n), d \in DictsOver(names \ {n})} :
                       n \in names}

Attributes == DictsOver({"cn", "jpegPhoto", "mail", "thumbnailPhoto"})

NoResult == [isNone |-> TRUE, v |-> <<>>]
Results(entries) == [isNone |-> FALSE, v |-> entries]

\* more than one entry: the entries themselves are never looked at
Ambiguous ==
    {Results(<< <<"uid=al,dc=x", a>>, <<"UID=AL,DC=X", b>> >>) :
        a \in {<<>>, << <<"jpegPhoto", List(<<>>)>> >>,
               << <<"cn", Str(<<"Al">>)>> >>},
        b \in {<<>>, << <<"cn", Str(<<"Al">>)>> >>}}

QueryResults ==
    {NoResult, Results(<<>>)}
    \cup {Results(<< <<dn, a>> >>) : dn \in EntryDNs, a \in Attributes}
    \cup Ambiguous

-----------------------------------------------------------------------------
(* The LDAP entry display form *)

\* get_object_label(context, request, form), from the host framework
ObjectLabel == "<object label>"

\* TITLE_SPAN_BREAK.format(label, translate(_("DN: {}")).format(dn))
FormTitle(entry) == <<ObjectLabel, "DN: ", DictGet(entry, "dn", "unknown")>>

\* One read of form.ldap_entry.  The getter runs unless reify has stored a
\* value; res is what query.execute(conn) returns if it runs.  An exception
\* leaves the getter, and its caller, and ends the request.
ldap_entry(res) ==
    LET cached == Reified(form_dict)
        outcome == IF cached THEN Ok(DictGet(form_dict, "ldap_entry", <<>>))
                   ELSE EntryOf(res)
    IN  /\ connections' = IF cached THEN connections ELSE connections + 1
        /\ executed' = IF cached THEN executed
                       ELSE Append(executed, LDAPQuery(request_dn))
        /\ result' = IF cached THEN result ELSE res
        /\ form_dict' = IF cached THEN form_dict ELSE ReifyStore(form_dict, outcome)
        /\ raised' = outcome.exc
        /\ reads' = reads + 1
        /\ first_read' = IF reads = 0 THEN outcome ELSE first_read
        /\ last_read' = outcome
        /\ UNCHANGED request_dn

\* the answers the directory may give to this read
Answers == IF Reified(form_dict) THEN {NoResult} ELSE QueryResults

\* form.ldap_entry.get('dn', _('unknown')) in the title adapter
ldap_entry_display_form_title ==
    /\ raised = ""
    /\ reads < MaxReads
    /\ \E res \in Answers :
          /\ ldap_entry(res)
          /\ title' = IF raised' = ""
                      THEN [n |-> title.n + 1, text |-> FormTitle(last_read'.value)]
                      ELSE title
          /\ UNCHANGED rows

\* yield from self.view.view.ldap_entry.get('attributes', ())
LDAPEntryPropertiesTableValues_values ==
    /\ raised = ""
    /\ reads < MaxReads
    /\ \E res \in Answers :
          /\ ldap_entry(res)
          /\ rows' = IF raised' = ""
                     THEN [n |-> rows.n + 1,
                           items |-> DictGet(last_read'.value, "attributes", <<>>)]
                     ELSE rows
          /\ UNCHANGED title

EntryInit ==
    /\ request_dn \in RequestDNs
    /\ form_dict = <<>>
    /\ connections = 0
    /\ executed = <<>>
    /\ result = NoResult
    /\ raised = ""
    /\ reads = 0
    /\ first_read = Ok(<<>>)
    /\ last_read = Ok(<<>>)
    /\ title = [n |-> 0, text |-> <<>>]
    /\ rows = [n |-> 0, items |-> <<>>]

EntryIdle ==
    /\ request_dn = "uid=al,dc=x"
    /\ form_dict = <<>>
    /\ connections = 0
    /\ executed = <<>>
    /\ result = NoResult
    /\ raised = ""
    /\ reads = 0
    /\ first_read = Ok(<<>>)
    /\ last_read = Ok(<<>>)
    /\ title = [n |-> 0, text |-> <<>>]
    /\ rows = [n |-> 0, items |-> <<>>]

SearchIdle ==
    /\ search_query = None
    /\ uid_attribute = "uid"
    /\ criteria = <<>>
    /\ found = <<>>
    /\ search_rows = [n |-> 0, items |-> <<>>]
    /\ columns = <<>>
    /\ cell = [set |-> FALSE, row |-> 0, obj |-> <<>>, column |-> "", value |-> None]

RegistryIdle ==
    /\ registry = {}
    /\ served = {}
    /\ denied = {}

Init == EntryInit /\ SearchIdle /\ RegistryIdle

Next ==
    \/ ldap_entry_display_form_title /\ UNCHANGED <<searchVars, registryVars>>
    \/ LDAPEntryPropertiesTableValues_values /\ UNCHANGED <<searchVars, registryVars>>

Spec == Init /\ [][Next]_vars

-----------------------------------------------------------------------------
(* Vocabulary of the statements about the entry display form *)

Missing == result.isNone \/ Len(result.v) = 0
Several == ~result.isNone /\ Len(result.v) > 1
Single == ~result.isNone /\ Len(result.v) = 1

\* the entry the query returned, when it returned one
ReturnedDN == result.v[1][1]
ReturnedAttributes == result.v[1][2]

EntryRead == reads >= 1
EntryAttributes == DictGet(last_read.value, "attributes", <<>>)

\* decoding of base64 text, written from RFC 4648 and not from the encoder:
\* four characters are 24 bits, '=' marks the missing bytes, line breaks are
\* skipped
B64Value(c) == CHOOSE i \in 0..63 : B64Alphabet[i + 1] = c
B64Bits(c) == IF c = "=" THEN 0 ELSE B64Value(c)
DecodeQuad(q) ==
    LET n == B64Bits(q[1]) * 262144 + B64Bits(q[2]) * 4096
             + B64Bits(q[3]) * 64 + B64Bits(q[4])
        all == <<n \div 65536, (n \div 256) % 256, n % 256>>
    IN  SubSeq(all, 1, IF q[3] = "=" THEN 1 ELSE IF q[4] = "=" THEN 2 ELSE 3)

RECURSIVE Decoded(_)
Decoded(text) ==
    IF text = <<>> THEN <<>>
    ELSE IF Head(text) = "\n" THEN Decoded(Tail(text))
    ELSE DecodeQuad(SubSeq(text, 1, 4)) \o Decoded(SubSeq(text, 5, Len(text)))

\* value is a one-element list holding the image markup of the bytes given
IsMarkupOf(value, bytes) ==
    /\ value.t = "list" /\ Len(value.v) = 1
    /\ value.v[1].t = "str"
    /\ LET text == value.v[1].v
       IN  /\ Len(text) >= 2
           /\ text[1] = "<img src=\"data:image/jpeg;base64,"
           /\ text[Len(text)] = "\" />"
           /\ \A i \in 2..(Len(text) - 1) :
                 text[i] = "\n" \/ text[i] = "=" \/ \E k \in 0..63 : B64Alphabet[k + 1] = text[i]
           /\ Len(text) > 2 => text[Len(text) - 1] = "\n"
           /\ Decoded(SubSeq(text, 2, Len(text) - 1)) = bytes

\* a photo value the post-processing can encode: bytes, or a list whose first
\* value is bytes
Encodable(value) ==
    \/ value.t = "bytes"
    \/ value.t = "list" /\ value.v # <<>> /\ value.v[1].t = "bytes"
FirstBytes(value) == IF value.t = "list" THEN value.v[1].v ELSE value.v

PhotoNames == {"jpegPhoto", "thumbnailPhoto"}
WellFormed(attributes) ==
    \A n \in DictKeys(attributes) \cap PhotoNames :
        Encodable(DictGet(attributes, n, None))

\* the statements of C1, C2, C3 on the value ldap_entry returned for a single
\* entry
MappingOfEntry ==
    /\ Len(last_read.value) = 2
    /\ DictKeys(last_read.value) = {"dn", "attributes"}
    /\ DictGet(last_read.value, "dn", "") = ReturnedDN

SortedByName ==
    /\ \A i, j \in 1..Len(EntryAttributes) :
          i < j => StrLess(EntryAttributes[i][1], EntryAttributes[j][1])
    /\ DictKeys(EntryAttributes) = DictKeys(ReturnedAttributes)
    /\ Len(EntryAttributes) = Len(ReturnedAttributes)
    /\ rows.n >= 1 => rows.items = EntryAttributes

PhotosEncoded ==
    \A n \in DictKeys(ReturnedAttributes) :
        LET given == DictGet(ReturnedAttributes, n, None)
            shown == DictGet(EntryAttributes, n, None)
        IN  IF n \in PhotoNames
            THEN Encodable(given) /\ IsMarkupOf(shown, FirstBytes(given))
            ELSE shown = given

-----------------------------------------------------------------------------
(* Statements about the entry display form *)

\* C1: the lookup is a base-scope query on the request's 'dn'; ldap_entry is
\* the empty mapping when the query returns nothing (or None) or more than
\* one entry, and a mapping with exactly the keys 'dn' and 'attributes', 'dn'
\* being the DN of the returned entry, when it returns exactly one.
C1_EntryMapping ==
    EntryRead =>
        /\ executed = <<LDAPQuery(request_dn)>>
        /\ (Missing \/ Several) => raised = "" /\ last_read.value = <<>>
        /\ Single => raised = "" /\ MappingOfEntry

\* C2: for a single returned entry, 'attributes' is the sequence of the
\* entry's (name, value) pairs in ascending order of name, one pair for each
\* attribute name of the entry, and the table yields its rows in that order.
C2_AttributesSorted ==
    (EntryRead /\ Single) => raised = "" /\ SortedByName

\* C3: for a single returned entry, each photo attribute present is replaced
\* by a one-element list holding the image markup of the base64 encoding of
\* its (first) value, and every other attribute keeps the value returned.
C3_PhotosEncoded ==
    (EntryRead /\ Single) => raised = "" /\ PhotosEncoded

\* C9: for a single returned entry, whatever the shape of a photo attribute,
\* ldap_entry completes without raising and returns a mapping holding 'dn'
\* and 'attributes'.
C9_NeverRaises ==
    (EntryRead /\ Single) =>
        raised = "" /\ {"dn", "attributes"} \subseteq DictKeys(last_read.value)

\* C1, C2 and C3 hold of every single entry whose photo attributes can be
\* encoded: on these entries the getter returns, and what it returns is as
\* the three statements say.
EncodableEntryIsShown ==
    (EntryRead /\ Single /\ WellFormed(ReturnedAttributes)) =>
        raised = "" /\ MappingOfEntry /\ SortedByName /\ PhotosEncoded

\* The getter raises exactly on a single entry holding a photo attribute that
\* cannot be encoded.
RaisesOnlyOnPhoto ==
    EntryRead =>
        (raised # "" <=> (Single /\ ~WellFormed(ReturnedAttributes)))

\* C4: when the lookup is missing or ambiguous, the table yields no row, the
\* title is built with the 'unknown' placeholder and nothing is raised.
C4_NotFoundIsEmpty ==
    (EntryRead /\ (Missing \/ Several)) =>
        /\ raised = ""
        /\ rows.items = <<>>
        /\ title.n >= 1 => title.text = <<ObjectLabel, "DN: ", "unknown">>

\* an ambiguous answer, read by the title adapter and by the table
C4_Witness ==
    /\ Several /\ DictKeys(result.v[1][2]) # {}
    /\ title.n >= 1 /\ rows.n >= 1

\* a missing answer, read by the title adapter and by the table
C4_WitnessMissing == EntryRead /\ Missing /\ title.n >= 1 /\ rows.n >= 1

\* C5: whatever the reads of ldap_entry made on the form instance,
\* get_connection and the query execution happen at most once, and every
\* read returns what the first read computed.
C5_OneQuery ==
    /\ connections <= 1
    /\ Len(executed) <= 1
    /\ EntryRead => last_read = first_read
    /\ (EntryRead /\ raised = "") =>
          /\ connections = 1 /\ Len(executed) = 1
          /\ title.n >= 1 => title.text = FormTitle(first_read.value)
          /\ rows.n >= 1 =>
                rows.items = DictGet(first_read.value, "attributes", <<>>)

\* a single entry read once by the title adapter and twice by the table
C5_Witness ==
    /\ Single /\ raised = "" /\ reads >= 3
    /\ title.n >= 1 /\ rows.n >= 2
    /\ Len(EntryAttributes) >= 2

-----------------------------------------------------------------------------
(* The search results table *)

\* {'query': self.request.params.get('form.widgets.query')}
SearchCriteria(query) == << <<"query", query>> >>

\* a faulty variant of YieldFrom: the rows without a 'cn' attribute are skipped
YieldFromNamed(results) == SelectSeq(results, LAMBDA row : "cn" \in DictKeys(row[2]))

\* yield from self.context.get_search_results(...): every row, in order
YieldFrom(results) == results

\* '<br /> '.join(values)
RECURSIVE Joined(_)
Joined(values) ==
    IF values = <<>> THEN <<>>
    ELSE IF Len(values) = 1 THEN values[1].v
    ELSE values[1].v \o <<"<br /> ">> \o Joined(Tail(values))

\* a faulty variant of get_value: only a list is joined
get_value_of_list(attr_name, obj) ==
    LET value == DictGet(obj[2], attr_name, Tuple(<<>>))
    IN  IF value.t = "list" THEN Str(Joined(value.v)) ELSE value

\* LDAPColumn.get_value(self, obj), self.attr_name being attr_name
get_value(attr_name, obj) ==
    LET value == DictGet(obj[2], attr_name, Tuple(<<>>))
    IN  IF value.t \in {"list", "tuple"} THEN Str(Joined(value.v)) ELSE value

\* a faulty variant of ColumnAdapters: the weights of cn and mail exchanged
ColumnAdaptersSwapped ==
    { [name |-> "uid", class |-> "LDAPPluginSearchUIDColumn",
       attr_name |-> "", weight |-> 10],
      [name |-> "cn", class |-> "LDAPPluginSearchCNColumn",
       attr_name |-> "cn", weight |-> 30],
      [name |-> "mail", class |-> "LDAPPluginSearchMailColumn",
       attr_name |-> "mail", weight |-> 20] }

\* the IColumn adapters registered for LDAPPluginSearchResultsTable; the uid
\* column has no attr_name of its own, it reads the plugin's uid_attribute
ColumnAdapters ==
    { [name |-> "uid", class |-> "LDAPPluginSearchUIDColumn",
       attr_name |-> "", weight |-> 10],
      [name |-> "cn", class |-> "LDAPPluginSearchCNColumn",
       attr_name |-> "cn", weight |-> 20],
      [name |-> "mail", class |-> "LDAPPluginSearchMailColumn",
       attr_name |-> "mail", weight |-> 30] }

\* LDAPPluginSearchUIDColumn.attr_name is the property, the others' the
\* class attribute
attr_name(column) ==
    IF column.class = "LDAPPluginSearchUIDColumn" THEN uid_attribute
    ELSE column.attr_name

\* the columns of a table are displayed by ascending weight
RECURSIVE ByWeight(_)
ByWeight(adapters) ==
    IF adapters = {} THEN <<>>
    ELSE LET first == CHOOSE c \in adapters :
                          \A d \in adapters : c.weight <= d.weight
         IN  <<first>> \o ByWeight(adapters \ {first})

\* what plugin.get_search_results may return: rows (dn, attributes) whose
\* uid, cn and mail are text, single- or multi-valued
Names == <<Str(<<"al">>), Str(<<"alice">>), Str(<<"a.l">>), Str(<<"a">>), Str(<<"l">>)>>
UidValues ==
    {Str(<<"al">>), Tuple(<<Str(<<"al">>), Str(<<"alice">>)>>)}
    \cup {List(SubSeq(Names, 1, n)) : n \in 0..MaxValues}
SearchRows ==
    {<<"uid=al,dc=x", << <<"uid", u>>, <<"cn", Str(<<"Al">>)>> >> >> : u \in UidValues}
    \cup { <<"uid=bo,dc=x", << <<"cn", List(<<Str(<<"Bo">>), Str(<<"Bob">>)>>)>> >> >>,
           <<"uid=cy,dc=x", << <<"mail", List(<<Str(<<"cy@x">>)>>)>>,
                               <<"uid", Str(<<"cy">>)>> >> >> }
SearchResults == UNION {[1..n -> SearchRows] : n \in 0..MaxRows}

NoCell == [set |-> FALSE, row |-> 0, obj |-> <<>>, column |-> "", value |-> None]

\* LDAPPluginSearchResultsValues.values: one evaluation, for one rendering of
\* the table; the plugin is asked again at each evaluation
LDAPPluginSearchResultsValues_values ==
    /\ search_rows.n < MaxEvals
    /\ criteria' = Append(criteria, SearchCriteria(search_query))
    /\ search_rows' = [n |-> search_rows.n + 1, items |-> YieldFrom(found)]
    /\ cell' = NoCell
    /\ UNCHANGED <<search_query, uid_attribute, found, columns>>

\* the table sets its columns up from the IColumn adapters
SetUpColumns ==
    /\ columns = <<>>
    /\ columns' = ByWeight(ColumnAdapters)
    /\ UNCHANGED <<search_query, uid_attribute, criteria, found, search_rows, cell>>

\* the table renders the cell of one row in one column
RenderCell ==
    /\ \E i \in 1..Len(search_rows.items), c \in 1..Len(columns) :
          cell' = [set |-> TRUE, row |-> i, obj |-> search_rows.items[i],
                   column |-> columns[c].name,
                   value |-> get_value(attr_name(columns[c]), search_rows.items[i])]
    /\ UNCHANGED <<search_query, uid_attribute, criteria, found, search_rows, columns>>

SearchInit ==
    /\ search_query \in {None, Str(<<"al">>)}
    /\ uid_attribute \in {"uid", "mail"}
    /\ criteria = <<>>
    /\ found \in SearchResults
    /\ search_rows = [n |-> 0, items |-> <<>>]
    /\ columns = <<>>
    /\ cell = NoCell

InitSearch == EntryIdle /\ SearchInit /\ RegistryIdle

NextSearch ==
    \/ LDAPPluginSearchResultsValues_values /\ UNCHANGED <<entryVars, registryVars>>
    \/ SetUpColumns /\ UNCHANGED <<entryVars, registryVars>>
    \/ RenderCell /\ UNCHANGED <<entryVars, registryVars>>

SpecSearch == InitSearch /\ [][NextSearch]_vars

-----------------------------------------------------------------------------
(* Statements about the search results table *)

\* the attribute a column of the given name is meant to show
ShownAttribute(name) == IF name = "uid" THEN uid_attribute ELSE name

\* C6: the rows of the table are the entries plugin.get_search_results
\* returned for the criteria {'query': <form.widgets.query>}, all of them and
\* in the same order; the columns are uid, cn and mail in that order
\* (weights 10 < 20 < 30), the uid column reading the attribute named by the
\* plugin's uid_attribute.
C6_SearchTable ==
    /\ search_rows.n >= 1 => search_rows.items = found
    /\ Len(criteria) = search_rows.n
    /\ \A i \in 1..Len(criteria) :
          /\ DictKeys(criteria[i]) = {"query"} /\ Len(criteria[i]) = 1
          /\ DictGet(criteria[i], "query", None) = search_query
    /\ columns # <<>> =>
          /\ [i \in 1..Len(columns) |-> columns[i].name] = <<"uid", "cn", "mail">>
          /\ [i \in 1..Len(columns) |-> columns[i].weight] = <<10, 20, 30>>
    /\ (cell.set /\ cell.column = "uid") =>
          cell.value = get_value(uid_attribute, found[cell.row])

\* two rows returned, the second without 'cn', and the uid cell of a row
\* rendered from a uid_attribute other than 'uid'
C6_Witness ==
    /\ search_rows.n >= 1 /\ Len(found) = 2
    /\ "cn" \notin DictKeys(found[2][2])
    /\ columns # <<>>
    /\ cell.set /\ cell.column = "uid" /\ uid_attribute = "mail"
    /\ cell.value # Str(<<>>)

\* C10: get_value returns the empty string when the attribute is absent from
\* the row, the values joined by '<br /> ' in their order when the attribute
\* is a list or a tuple (the value itself for a single one), and the value
\* unchanged otherwise; the row is left as it was.
C10_GetValue ==
    cell.set =>
        LET name == ShownAttribute(cell.column)
            attributes == cell.obj[2]
            value == DictGet(attributes, name, None)
            k == Len(value.v)
        IN  /\ name \notin DictKeys(attributes) => cell.value = Str(<<>>)
            /\ (name \in DictKeys(attributes) /\ value.t \in {"list", "tuple"}) =>
                  /\ cell.value.t = "str"
                  /\ Len(cell.value.v) = IF k = 0 THEN 0 ELSE 2 * k - 1
                  /\ \A i \in 1..k : cell.value.v[2 * i - 1] = value.v[i].v[1]
                  /\ \A i \in 1..(k - 1) : cell.value.v[2 * i] = "<br /> "
                  /\ k = 1 => cell.value = value.v[1]
            /\ (name \in DictKeys(attributes) /\ value.t \notin {"list", "tuple"}) =>
                  cell.value = value
            /\ search_rows.items[cell.row] = cell.obj
            /\ found[cell.row] = cell.obj

\* the cell of a tuple of two values
C10_Witness ==
    /\ cell.set /\ cell.column = "uid" /\ uid_attribute = "uid"
    /\ DictGet(cell.obj[2], "uid", None).t = "tuple"
    /\ cell.value = Str(<<"al", "<br /> ", "alice">>)

\* the cell of an absent attribute
C10_WitnessAbsent ==
    cell.set /\ cell.column = "mail" /\ "mail" \notin DictKeys(cell.obj[2])

-----------------------------------------------------------------------------
(* The registrations made by the decorators of the module *)

\* the permission imported from pyams_security.interfaces.base
MANAGE_SECURITY_PERMISSION == "MANAGE_SECURITY_PERMISSION"

\* a registration; what a decorator does not state is "" (or <<>>, or 0)
View(name, context, class, permission) ==
    [kind |-> "view", name |-> name, context |-> context, layer |-> "IPyAMSLayer",
     view |-> "", provides |-> "", class |-> class, permission |-> permission,
     weight |-> 0, fields |-> <<>>, implements |-> ""]

InnerTabForm(name, context, form, class, weight, fields, implements) ==
    [kind |-> "adapter", name |-> name, context |-> context, layer |-> "IAdminLayer",
     view |-> form, provides |-> "IInnerTabForm", class |-> class, permission |-> "",
     weight |-> weight, fields |-> fields, implements |-> implements]

FormFields(subform, function, fields) ==
    [kind |-> "adapter", name |-> "", context |-> "Interface", layer |-> "IAdminLayer",
     view |-> subform, provides |-> "IFormFields", class |-> function,
     permission |-> "", weight |-> 0, fields |-> fields, implements |-> ""]

\* Fields(ILDAPPlugin).select(...), as written at each place of the module
ConnectionFields ==
    <<"server_uri", "start_tls", "bind_dn", "bind_password", "bind_mode">>

UsersSchemaAddFields ==
    <<"base_dn", "search_scope", "login_attribute", "login_query", "uid_attribute",
      "uid_query", "title_format", "mail_attribute", "user_extra_attributes">>

UsersSchemaEditFields ==
    <<"base_dn", "search_scope", "login_attribute", "login_query", "uid_attribute",
      "uid_query", "title_format", "mail_attribute", "user_extra_attributes">>

UsersSchemaAdapterFields ==
    <<"base_dn", "search_scope", "login_attribute", "login_query", "uid_attribute",
      "uid_query", "title_format", "mail_attribute", "user_extra_attributes">>

GroupsSchemaAddFields ==
    <<"groups_base_dn", "groups_search_scope", "group_prefix", "group_uid_attribute",
      "group_title_format", "group_members_query_mode", "groups_query",
      "group_members_attribute", "user_groups_attribute", "group_mail_mode",
      "group_replace_expression", "group_mail_attribute", "group_extra_attributes">>

\* a faulty variant of GroupsSchemaEditFields: 'group_mail_mode' left out of the
\* edit form
GroupsSchemaEditFieldsShort ==
    <<"groups_base_dn", "groups_search_scope", "group_prefix", "group_uid_attribute",
      "group_title_format", "group_members_query_mode", "groups_query",
      "group_members_attribute", "user_groups_attribute",
      "group_replace_expression", "group_mail_attribute", "group_extra_attributes">>

GroupsSchemaEditFields ==
    <<"groups_base_dn", "groups_search_scope", "group_prefix", "group_uid_attribute",
      "group_title_format", "group_members_query_mode", "groups_query",
      "group_members_attribute", "user_groups_attribute", "group_mail_mode",
      "group_replace_expression", "group_mail_attribute", "group_extra_attributes">>

GroupsSchemaAdapterFields ==
    <<"groups_base_dn", "groups_search_scope", "group_prefix", "group_uid_attribute",
      "group_title_format", "group_members_query_mode", "groups_query",
      "group_members_attribute", "user_groups_attribute", "group_mail_mode",
      "group_replace_expression", "group_mail_attribute", "group_extra_attributes">>

SearchSettingsAddFields ==
    <<"users_select_query", "users_search_query", "groups_select_query",
      "groups_search_query">>

SearchSettingsEditFields ==
    <<"users_select_query", "users_search_query", "groups_select_query",
      "groups_search_query">>

SearchSettingsAdapterFields ==
    <<"users_select_query", "users_search_query", "groups_select_query",
      "groups_search_query">>

\* a faulty variant of ViewRegistrations: search.html registered without permission
ViewRegistrationsOpenSearch ==
    { View("add-ldap-plugin.html", "ISecurityManager", "LDAPPluginAddForm",
           MANAGE_SECURITY_PERMISSION),
      View("properties.html", "ILDAPPlugin", "LDAPPluginPropertiesEditForm", ""),
      View("search.html", "ILDAPPlugin", "LDAPPluginSearchView", ""),
      View("search-results.html", "ILDAPPlugin", "LDAPPluginSearchResultsView",
           MANAGE_SECURITY_PERMISSION),
      View("ldap-properties.html", "ILDAPPlugin", "LDAPEntryPropertiesDisplayForm",
           MANAGE_SECURITY_PERMISSION) }

\* @ajax_form_config and @pagelet_config
ViewRegistrations ==
    { View("add-ldap-plugin.html", "ISecurityManager", "LDAPPluginAddForm",
           MANAGE_SECURITY_PERMISSION),
      View("properties.html", "ILDAPPlugin", "LDAPPluginPropertiesEditForm", ""),
      View("search.html", "ILDAPPlugin", "LDAPPluginSearchView",
           MANAGE_SECURITY_PERMISSION),
      View("search-results.html", "ILDAPPlugin", "LDAPPluginSearchResultsView",
           MANAGE_SECURITY_PERMISSION),
      View("ldap-properties.html", "ILDAPPlugin", "LDAPEntryPropertiesDisplayForm",
           MANAGE_SECURITY_PERMISSION) }

\* @adapter_config(name=..., provides=IInnerTabForm) on the add form
AddSubforms ==
    { InnerTabForm("connection", "ISecurityManager", "LDAPPluginAddForm",
                   "LDAPPluginConnectionAddForm", 1, <<>>,
                   "ILDAPPluginConnectionSubform"),
      InnerTabForm("users-schema", "ISecurityManager", "LDAPPluginAddForm",
                   "LDAPPluginUsersSchemaAddForm", 10, UsersSchemaAddFields, ""),
      InnerTabForm("groups-schema", "ISecurityManager", "LDAPPluginAddForm",
                   "LDAPPluginGroupsSchemaAddForm", 20, GroupsSchemaAddFields, ""),
      InnerTabForm("search-settings", "ISecurityManager", "LDAPPluginAddForm",
                   "LDAPPluginSearchSettingsAddForm", 30, SearchSettingsAddFields, "") }

\* @adapter_config(name=..., provides=IInnerTabForm) on the edit form
EditSubforms ==
    { InnerTabForm("connection", "ILDAPPlugin", "LDAPPluginPropertiesEditForm",
                   "LDAPPluginConnectionEditForm", 1, <<>>,
                   "ILDAPPluginConnectionSubform"),
      InnerTabForm("users-schema", "ILDAPPlugin", "LDAPPluginPropertiesEditForm",
                   "LDAPPluginUsersSchemaEditForm", 10, UsersSchemaEditFields, ""),
      InnerTabForm("groups-schema", "ILDAPPlugin", "LDAPPluginPropertiesEditForm",
                   "LDAPPluginGroupsSchemaEditForm", 20, GroupsSchemaEditFields, ""),
      InnerTabForm("search-settings", "ILDAPPlugin", "LDAPPluginPropertiesEditForm",
                   "LDAPPluginSearchSettingsEditForm", 30, SearchSettingsEditFields, "") }

\* @adapter_config(provides=IFormFields)
FieldsAdapters ==
    { FormFields("ILDAPPluginConnectionSubform", "ldap_plugin_connection_fields",
                 ConnectionFields),
      FormFields("ILDAPPluginUsersSchemaSubform", "ldap_plugin_users_schema_fields",
                 UsersSchemaAdapterFields),
      FormFields("ILDAPPluginGroupsSchemaSubform", "ldap_plugin_groups_schema_fields",
                 GroupsSchemaAdapterFields),
      FormFields("ILDAPPluginSearchSettingsSubform",
                 "ldap_plugin_search_settings_fields", SearchSettingsAdapterFields) }

Registrations == ViewRegistrations \cup AddSubforms \cup EditSubforms \cup FieldsAdapters

\* the inner tab forms the registry gives to a form
InnerTabForms(form) ==
    {r \in registry : r.provides = "IInnerTabForm" /\ r.view = form}

\* the fields of a sub-form: those its class selects, or else those of the
\* IFormFields adapter registered for the interface the class implements
SubformFields(subform) ==
    IF subform.fields # <<>> THEN subform.fields
    ELSE LET found_adapters == {r \in registry : r.provides = "IFormFields"
                                                 /\ r.view = subform.implements}
         IN  IF found_adapters = {} THEN <<>>
             ELSE (CHOOSE r \in found_adapters : TRUE).fields

\* the scan of the module runs the decorators' callbacks, one registration
\* at a time
Scan ==
    /\ \E r \in Registrations \ registry : registry' = registry \cup {r}
    /\ UNCHANGED <<served, denied>>

ScanDone == registry = Registrations

\* A request for a named view, made by a principal that holds the
\* manage-security permission or does not.  The permission of the view's
\* registration is checked before the view is called; a registration that
\* states none leaves the decision to the host application.
Request ==
    /\ ScanDone
    /\ Cardinality(served \cup denied) < MaxRequests
    /\ \E v \in {r \in registry : r.kind = "view"}, manage \in BOOLEAN :
          LET request == [view |-> v.name, manage |-> manage]
          IN  /\ request \notin served \cup denied
              /\ \/ /\ v.permission = MANAGE_SECURITY_PERMISSION => manage
                    /\ served' = served \cup {request}
                    /\ denied' = denied
                 \/ /\ v.permission = MANAGE_SECURITY_PERMISSION => ~manage
                    /\ denied' = denied \cup {request}
                    /\ served' = served
    /\ UNCHANGED registry

RegistryInit ==
    /\ registry = {}
    /\ served = {}
    /\ denied = {}

InitRegistry == EntryIdle /\ SearchIdle /\ RegistryInit

NextRegistry ==
    \/ Scan /\ UNCHANGED <<entryVars, searchVars>>
    \/ Request /\ UNCHANGED <<entryVars, searchVars>>

SpecRegistry == InitRegistry /\ [][NextRegistry]_vars

-----------------------------------------------------------------------------
(* Statements about the registrations *)

SubformNames == {"connection", "users-schema", "groups-schema", "search-settings"}
Range(seq) == {seq[i] : i \in 1..Len(seq)}
AddTabs == InnerTabForms("LDAPPluginAddForm")
EditTabs == InnerTabForms("LDAPPluginPropertiesEditForm")

\* C7: the add form and the edit form have the same four sub-forms
\* (connection, users-schema, groups-schema, search-settings); the add and
\* the edit sub-form of a name have the same weight and the same ordered
\* list of fields; the field lists of the four sub-forms are pairwise
\* disjoint.
C7_SameSubforms ==
    ScanDone =>
        /\ {r.name : r \in AddTabs} = SubformNames
        /\ {r.name : r \in EditTabs} = SubformNames
        /\ Cardinality(AddTabs) = 4 /\ Cardinality(EditTabs) = 4
        /\ \A a \in AddTabs, e \in EditTabs :
              a.name = e.name =>
                  /\ a.weight = e.weight
                  /\ SubformFields(a) = SubformFields(e)
                  /\ SubformFields(a) # <<>>
        /\ \A a, b \in AddTabs \cup EditTabs :
              a.name # b.name =>
                  Range(SubformFields(a)) \cap Range(SubformFields(b)) = {}

\* every registration made
C7_Witness ==
    /\ ScanDone
    /\ \E a \in AddTabs, e \in EditTabs :
          /\ a.name = "connection" /\ e.name = "connection"
          /\ SubformFields(a) = ConnectionFields
          /\ SubformFields(e) = ConnectionFields

FiveViews ==
    {"add-ldap-plugin.html", "properties.html", "search.html", "search-results.html",
     "ldap-properties.html"}
RegisteredViews == {r \in registry : r.kind = "view"}

\* C8 as stated: each of the five named views is registered with the
\* manage-security permission, and no request lacking it reaches one of
\* them.
C8_AllFiveProtected ==
    /\ \A v \in RegisteredViews :
          v.name \in FiveViews => v.permission = MANAGE_SECURITY_PERMISSION
    /\ \A s \in served : s.view \in FiveViews => s.manage

\* C8 amended: the five views are registered; add-ldap-plugin.html,
\* search.html, search-results.html and ldap-properties.html are registered
\* with the manage-security permission and no request lacking it reaches one
\* of these four; properties.html is registered with no permission.
C8_FourProtected ==
    /\ ScanDone => {v.name : v \in RegisteredViews} = FiveViews
    /\ \A v \in RegisteredViews :
          IF v.name = "properties.html"
          THEN v.permission = ""
          ELSE v.permission = MANAGE_SECURITY_PERMISSION
    /\ \A s \in served : s.view # "properties.html" => s.manage
    /\ \A d \in denied : d.view # "properties.html" => ~d.manage

\* a request without the permission refused by search.html, and one with it
\* served by ldap-properties.html
C8_Witness ==
    /\ [view |-> "search.html", manage |-> FALSE] \in denied
    /\ [view |-> "ldap-properties.html", manage |-> TRUE] \in served

=============================================================================
